---- MODULE Spec2Model ----
(***************************************************************************)
(* Vtable allocations of rustc_middle::ty::vtable.                         *)
(*                                                                         *)
(* vtable_allocation_provider builds the words of one vtable; the query    *)
(* tcx.vtable_allocation memoizes it per key (Ty, Option<TraitRef>) and is *)
(* the only way the provider runs, also for the supertrait vtables the     *)
(* provider asks for itself.  Workers issue queries concurrently.          *)
(***************************************************************************)
EXTENDS Integers, Sequences, FiniteSets, TLC

\* ------------------------------------------------------------------ bounds
MaxExtra == 3        \* entries after the headers in the schemas of a session, all traits together

\* ------------------------------------------------------- program constants
VTABLE_DROPINPLACE_OFFSET == 0
VTABLE_LAYOUT_OFFSET == 1
PtrSize == 8         \* tcx.data_layout.pointer_size in bytes

\* ------------------------------------------------------------ input domains
Workers == {"w1", "w2"}
Types == {"T", "Z", "D", "U"}
Traits == {"A", "B"}
Methods == {"f", "g"}
NoTrait == "None"
NoKey == [ty |-> "", tr |-> ""]

Key(ty, tr) == [ty |-> ty, tr |-> tr]
Keys == {Key(ty, tr) : ty \in Types, tr \in Traits \cup {NoTrait}}

\* Type Layout Provider: tcx.layout_of(ty) and ty.needs_drop(tcx, ..).
\* T is an 8-byte, 4-aligned type without drop glue, Z the zero-sized (), D a
\* 6-byte, 2-aligned type with drop glue, U an unsized type.
layout_of(ty) ==
    CASE ty = "T" -> [size |-> 8, align |-> 4, sized |-> TRUE]
      [] ty = "Z" -> [size |-> 0, align |-> 1, sized |-> TRUE]
      [] ty = "D" -> [size |-> 6, align |-> 2, sized |-> TRUE]
      [] OTHER    -> [size |-> 0, align |-> 1, sized |-> FALSE]

needs_drop(ty) == ty = "D"

\* ------------------------------------------------------------- VtblEntry
MetadataDropInPlace == [tag |-> "MetadataDropInPlace", arg |-> ""]
MetadataTyLayout == [tag |-> "MetadataTyLayout", arg |-> ""]
Vacant == [tag |-> "Vacant", arg |-> ""]
Method(m) == [tag |-> "Method", arg |-> m]
TraitVPtr(t) == [tag |-> "TraitVPtr", arg |-> t]

COMMON_VTABLE_ENTRIES == <<MetadataDropInPlace, MetadataTyLayout>>

\* Entries the schema provider may put after the header.
ExtraEntries == {Vacant} \cup {Method(m) : m \in Methods} \cup {TraitVPtr(t) : t \in Traits}

SeqsUpTo(S, n) == UNION {[1..k -> S] : k \in 0..n}

\* The schemas tcx.vtable_entries can answer with: the header, then the
\* trait's own entries.
Schemas(n) == {COMMON_VTABLE_ENTRIES \o s : s \in SeqsUpTo(ExtraEntries, n)}

\* ---------------------------------------------------------------- Scalar
Uninit == [tag |-> "uninit", val |-> 0]
ScalarInt(v) == [tag |-> "int", val |-> v]
ScalarPtr(id) == [tag |-> "ptr", val |-> id]
NullPtr == ScalarInt(0)

RECURSIVE BitOr(_, _)
BitOr(a, b) ==
    IF a = 0 THEN b
    ELSE IF b = 0 THEN a
    ELSE (IF a % 2 = 1 \/ b % 2 = 1 THEN 1 ELSE 0) + 2 * BitOr(a \div 2, b \div 2)

ShiftLeft(a, n) == a * (2 ^ n)

\* Instances handed to the function pointer resolver.
DropInstance(ty) == [kind |-> "drop_in_place", name |-> "", ty |-> ty]
MethodInstance(m, ty) == [kind |-> "method", name |-> m, ty |-> ty]
Instances == {DropInstance(ty) : ty \in Types} \cup {MethodInstance(m, ty) : m \in Methods, ty \in Types}

\* GlobalAlloc
FnAlloc(inst) == [kind |-> "fn", instance |-> inst, words |-> <<>>, mutability |-> "Not"]
MemAlloc(words, mut) == [kind |-> "mem", instance |-> DropInstance(""), words |-> words, mutability |-> mut]

VARIABLES
    entries,     \* tcx.vtable_entries: trait -> schema
    declared,    \* tcx.count_vtable_entries: trait -> declared entry count
    status,      \* the query cache: key -> absent / running (owner) / done (AllocId)
    alloc_map,   \* tcx.alloc_map: AllocId (index) -> GlobalAlloc
    stack,       \* per worker: the provider frames it is executing, innermost last
    req,         \* per worker: key of its top-level query
    pending,     \* per worker: its top-level query has not returned yet
    result,      \* per worker: outcome of its last top-level query
    calls,       \* instance -> number of resolver invocations
    built,       \* log of finished provider runs: <<[key, id, words, resolved]>>
    panics,      \* log of provider runs that panicked: <<key>>
    enc,         \* the layout word: two layouts, their words and what is read back
    lint         \* calc_unused_spans: a use item, its unused ids and the result

vtable_vars == <<entries, declared, status, alloc_map, stack, req, pending, result, calls, built, panics>>
vars == <<entries, declared, status, alloc_map, stack, req, pending, result, calls, built, panics, enc, lint>>

\* Nothing is being encoded, no use item is being checked.
EncIdle == [phase |-> "idle"]
LintIdle == [phase |-> "idle"]

Absent == [state |-> "absent", owner |-> "", id |-> 0]
Running(w) == [state |-> "running", owner |-> w, id |-> 0]
Done(id) == [state |-> "done", owner |-> "", id |-> id]

NoResult == [tag |-> "none", id |-> 0]
BlobResult(id) == [tag |-> "blob", id |-> id]
FaultResult == [tag |-> "fault", id |-> 0]

\* ------------------------------------------------ external queries, as read
vtable_entries(key) ==
    IF key.tr # NoTrait THEN entries[key.tr] ELSE COMMON_VTABLE_ENTRIES

count_vtable_entries(tr) ==
    IF tr # NoTrait THEN declared[tr] ELSE Len(COMMON_VTABLE_ENTRIES)

get_vtable_metadata_index(tr) == count_vtable_entries(tr) - Len(COMMON_VTABLE_ENTRIES)

\* ------------------------------------------------------- the allocation map
IsFnAlloc(map, id, inst) == map[id].kind = "fn" /\ map[id].instance = inst

\* tcx.reserve_and_set_fn_alloc(instance, CTFE_ALLOC_SALT): one AllocId per instance.
FnAllocKnown(map, inst) == \E id \in 1..Len(map) : IsFnAlloc(map, id, inst)
reserve_and_set_fn_alloc(map, inst) ==
    IF FnAllocKnown(map, inst) THEN map ELSE Append(map, FnAlloc(inst))
FnAllocId(map, inst) ==
    CHOOSE id \in 1..Len(reserve_and_set_fn_alloc(map, inst)) :
        IsFnAlloc(reserve_and_set_fn_alloc(map, inst), id, inst)

\* tcx.reserve_and_set_memory_alloc(tcx.mk_const_alloc(vtable)): a fresh AllocId.
reserve_and_set_memory_alloc(map, alloc) == Append(map, alloc)

\* Variant: the entry count is not compared with the declared one.
CountAssertSkipped(key) == TRUE

\* ------------------------------------------------ vtable_allocation_provider
\* assert_eq!(vtable_entries.len(), count_vtable_entries(tcx, poly_trait_ref))
CountAssertHolds(key) == Len(vtable_entries(key)) = count_vtable_entries(key.tr)

\* Variant: the layout is not tested for being sized.
SizedAssertSkipped(key) == TRUE

\* assert!(layout.is_sized(), ..)
SizedAssertHolds(key) == layout_of(key.ty).sized

ProviderPanics(key) == ~CountAssertHolds(key) \/ ~SizedAssertHolds(key)

\* Variant: vacant entries get no slot.
VtableSizeNoVacant(key) ==
    PtrSize * Cardinality({i \in 1..Len(vtable_entries(key)) : vtable_entries(key)[i].tag # "Vacant"})

\* Allocation::uninit(ptr_size * len, ptr_align)
VtableSize(key) == PtrSize * Len(vtable_entries(key))
AllocationUninit(size) == [i \in 1..(size \div PtrSize) |-> Uninit]

NewFrame(key) ==
    [key |-> key, idx |-> 0, vtable |-> AllocationUninit(VtableSize(key)),
     mutability |-> "Mut", resolved |-> <<>>]

\* Variant: the scalar goes to the first slot not written yet, so the entries
\* after a vacant one move up.
write_scalar_packed(vtable, offset, scalar) ==
    LET free == {i \in 1..Len(vtable) : vtable[i] = Uninit}
    IN IF free = {} THEN vtable
       ELSE [vtable EXCEPT ![CHOOSE i \in free : \A j \in free : i <= j] = scalar]

\* vtable.write_scalar(&tcx, alloc_range(offset, ptr_size), scalar)
write_scalar(vtable, offset, scalar) ==
    [vtable EXCEPT ![(offset \div PtrSize) + 1] = scalar]

\* ty::Instance::resolve_drop_in_place(tcx, ty)
resolve_drop_in_place(ty) == DropInstance(ty)

\* instance.polymorphize(tcx): unused generic parameters are not modelled, the
\* instance stays the one of its method and type.
polymorphize(inst) == inst

\* What one match arm yields: the scalar, the allocation map after it, and the
\* instances it handed to the resolver.
Resolve(map, inst) ==
    [scalar |-> ScalarPtr(FnAllocId(map, inst)),
     map |-> reserve_and_set_fn_alloc(map, inst),
     resolved |-> <<inst>>]
Plain(map, scalar) == [scalar |-> scalar, map |-> map, resolved |-> <<>>]

\* Variant: the needs_drop test is inverted.
DropInPlaceEntryInverted(map, ty) ==
    IF ~needs_drop(ty) THEN Resolve(map, resolve_drop_in_place(ty)) ELSE Plain(map, NullPtr)

\* VtblEntry::MetadataDropInPlace
DropInPlaceEntry(map, ty) ==
    IF needs_drop(ty) THEN Resolve(map, resolve_drop_in_place(ty)) ELSE Plain(map, NullPtr)

\* Variant: the low bit is set instead of the alignment being or-ed in.
PackLayoutAlignOne(size, align) == BitOr(ShiftLeft(size, 1), 1)

\* Variant: size << 1 + align, which Rust reads as size << (1 + align).
PackLayoutShiftSum(size, align) == ShiftLeft(size, 1 + align)

\* Variant: the size of the table, not of the type, is packed.
TyLayoutScalarOfTable(key) ==
    ScalarInt(BitOr(ShiftLeft(PtrSize * Len(vtable_entries(key)), 1), layout_of(key.ty).align))

\* VtblEntry::MetadataTyLayout: size << 1 | align
PackLayout(size, align) == BitOr(ShiftLeft(size, 1), align)
TyLayoutScalar(key) ==
    ScalarInt(PackLayout(layout_of(key.ty).size, layout_of(key.ty).align))

\* Variant: every method slot gets the first method of the trait.
MethodEntryFirst(map, m, ty) == Resolve(map, polymorphize(MethodInstance("f", ty)))

\* VtblEntry::Method(instance)
MethodEntry(map, m, ty) == Resolve(map, polymorphize(MethodInstance(m, ty)))

EntryValue(map, entry, key) ==
    CASE entry.tag = "MetadataDropInPlace" -> DropInPlaceEntry(map, key.ty)
      [] entry.tag = "MetadataTyLayout" -> Plain(map, TyLayoutScalar(key))
      [] entry.tag = "Method" -> MethodEntry(map, entry.arg, key.ty)
      [] OTHER -> Plain(map, Uninit)

\* The resolver invocations counted per instance.
RECURSIVE Counted(_, _)
Counted(c, log) ==
    IF log = <<>> THEN c
    ELSE Counted([c EXCEPT ![Head(log)] = @ + 1], Tail(log))

\* The frame after the loop body ran for the entry at f.idx with `scalar`.
WriteAndAdvance(f, scalar) ==
    [f EXCEPT !.vtable = write_scalar(f.vtable, PtrSize * f.idx, scalar), !.idx = f.idx + 1]

\* VtblEntry::Vacant => continue
SkipVacant(f) == [f EXCEPT !.idx = f.idx + 1]

Top(w) == stack[w][Len(stack[w])]
Pop(s) == SubSeq(s, 1, Len(s) - 1)
ReplaceTop(s, f) == [s EXCEPT ![Len(s)] = f]
CurrentEntry(f) == vtable_entries(f.key)[f.idx + 1]
LoopRunning(f) == f.idx < Len(vtable_entries(f.key))

\* The size of a session's schemas: the entries the traits declare after the header.
RECURSIVE SumOver(_, _)
SumOver(S, f) ==
    IF S = {} THEN 0
    ELSE LET x == CHOOSE y \in S : TRUE IN f[x] + SumOver(S \ {x}, f)
SessionSize(decl) ==
    SumOver(Traits, [t \in Traits |-> decl[t] - Len(COMMON_VTABLE_ENTRIES)])

\* A session of the largest schemas issues one query and repeats it when it
\* has returned; a smaller one issues any query per worker, at any time.
MaxConcurrentExtra == MaxExtra - 1
SmallSession == SessionSize(declared) <= MaxConcurrentExtra

\* ------------------------------------------------------------------- Init
Init ==
    /\ entries \in [Traits -> Schemas(MaxExtra)]
    /\ \E off \in SUBSET Traits :
           declared = [t \in Traits |-> Len(entries[t]) + (IF t \in off THEN 1 ELSE 0)]
    /\ SessionSize(declared) <= MaxExtra
    /\ status = [k \in Keys |-> Absent]
    /\ alloc_map = <<>>
    /\ stack = [w \in Workers |-> <<>>]
    /\ req = [w \in Workers |-> NoKey]
    /\ pending = [w \in Workers |-> FALSE]
    /\ result = [w \in Workers |-> NoResult]
    /\ calls = [i \in Instances |-> 0]
    /\ built = <<>>
    /\ panics = <<>>
    /\ enc = EncIdle
    /\ lint = LintIdle

\* ---------------------------------------------------------------- actions
\* The tables of two sized types share nothing but the allocation map, so a
\* session asks for the tables of one sized type, and of unsized ones.
SameSession(ty1, ty2) == ty1 = ty2 \/ ~layout_of(ty1).sized \/ ~layout_of(ty2).sized

\* Workers are interchangeable: the one named first issues its query first.
StartsBefore(w) == IF w = "w2" THEN {"w1"} ELSE {}

\* A worker issues its query tcx.vtable_allocation(k).
Request(w, k) ==
    /\ req[w] = NoKey
    /\ \A v \in StartsBefore(w) : req[v] # NoKey
    /\ \A v \in Workers : req[v] # NoKey => SameSession(req[v].ty, k.ty)
    /\ SmallSession \/ \A v \in Workers : req[v] # NoKey => (req[v] = k /\ ~pending[v])
    /\ req' = [req EXCEPT ![w] = k]
    /\ pending' = [pending EXCEPT ![w] = TRUE]
    /\ result' = [result EXCEPT ![w] = NoResult]
    /\ UNCHANGED <<entries, declared, status, alloc_map, stack, calls, built, panics, enc, lint>>

\* The worker is at a call of tcx.vtable_allocation: its top-level query, or the
\* one the provider makes for a TraitVPtr entry.
AtQuery(w) ==
    /\ pending[w]
    /\ stack[w] # <<>> => (LoopRunning(Top(w)) /\ CurrentEntry(Top(w)).tag = "TraitVPtr")

\* Variant: the supertrait's trait reference is dropped from the key.
SuperKeyCommon(ty, entry) == Key(ty, NoTrait)

\* trait_ref.map_bound(erase_self_ty): the key of the supertrait's vtable.
SuperKey(ty, entry) == Key(ty, entry.arg)

Wanted(w) ==
    IF stack[w] = <<>> THEN req[w]
    ELSE SuperKey(Top(w).key.ty, CurrentEntry(Top(w)))

\* What the query system holds for a key.
CacheState(k) == status[k]

\* Variant: the provider runs itself for the supertrait, past the query system.
SupertraitAllocDirect(k) == Absent

\* tcx.vtable_allocation((ty, Some(super_trait_ref))): the provider asks the
\* query system, as any caller does.
SupertraitAlloc(k) == CacheState(k)

Seen(w) == IF stack[w] = <<>> THEN CacheState(Wanted(w)) ELSE SupertraitAlloc(Wanted(w))

\* Variant: a stored key is built again by the next worker that asks.
ClaimableStored(st, w) == st.state # "running"

\* A key nobody has stored or claimed is executed by the worker that asks.
Claimable(st, w) == st.state = "absent"

\* The query is cached: the caller gets the stored AllocId.
CacheHit(w) ==
    /\ AtQuery(w)
    /\ Seen(w).state = "done"
    /\ IF stack[w] = <<>>
       THEN /\ result' = [result EXCEPT ![w] = BlobResult(Seen(w).id)]
            /\ pending' = [pending EXCEPT ![w] = FALSE]
            /\ UNCHANGED stack
       ELSE /\ stack' = [stack EXCEPT ![w] =
                   ReplaceTop(@, WriteAndAdvance(Top(w), ScalarPtr(Seen(w).id)))]
            /\ UNCHANGED <<result, pending>>
    /\ UNCHANGED <<entries, declared, status, alloc_map, req, calls, built, panics, enc, lint>>

\* The query is not cached and nobody executes it: the worker claims the key and
\* runs the provider up to the allocation of the buffer.
StartBuild(w) ==
    /\ AtQuery(w)
    /\ Claimable(Seen(w), w)
    /\ ~ProviderPanics(Wanted(w))
    /\ status' = [status EXCEPT ![Wanted(w)] = Running(w)]
    /\ stack' = [stack EXCEPT ![w] = Append(@, NewFrame(Wanted(w)))]
    /\ UNCHANGED <<entries, declared, alloc_map, req, pending, result, calls, built, panics, enc, lint>>

\* Variant: the keys of a panicking worker are stored as if they were built.
MemoizeFault(st, w) == [k \in Keys |-> IF st[k] = Running(w) THEN Done(0) ELSE st[k]]

\* Variant: the provider that asked for the supertrait's table catches the
\* panic and goes on with a null pointer in the slot.
PanicCaught(s) ==
    IF s = <<>> THEN s ELSE ReplaceTop(s, WriteAndAdvance(s[Len(s)], NullPtr))

\* A panic is not caught by the provider: none of the worker's provider frames
\* survives it.
PanicUnwinds(s) == <<>>

\* The keys a panicking worker had claimed are given up, none is stored.
ReleaseClaims(st, w) == [k \in Keys |-> IF st[k] = Running(w) THEN Absent ELSE st[k]]

\* One of the provider's assertions fails: the panic unwinds through every query
\* the worker is executing and reaches the top-level caller.
BuildFault(w) ==
    /\ AtQuery(w)
    /\ Claimable(Seen(w), w)
    /\ ProviderPanics(Wanted(w))
    /\ status' = ReleaseClaims([status EXCEPT ![Wanted(w)] = Running(w)], w)
    /\ stack' = [stack EXCEPT ![w] = PanicUnwinds(@)]
    /\ pending' = [pending EXCEPT ![w] = FALSE]
    /\ result' = [result EXCEPT ![w] = FaultResult]
    /\ panics' = Append(panics, Wanted(w))
    /\ UNCHANGED <<entries, declared, alloc_map, req, calls, built, enc, lint>>

\* One iteration of the loop for an entry that is no TraitVPtr.
WriteEntry(w) ==
    /\ stack[w] # <<>>
    /\ LoopRunning(Top(w))
    /\ CurrentEntry(Top(w)).tag # "TraitVPtr"
    /\ LET f == Top(w)
           e == CurrentEntry(f)
           r == EntryValue(alloc_map, e, f.key)
           g == IF e.tag = "Vacant" THEN SkipVacant(f) ELSE WriteAndAdvance(f, r.scalar)
       IN /\ stack' = [stack EXCEPT ![w] =
                 ReplaceTop(@, [g EXCEPT !.resolved = @ \o r.resolved])]
          /\ alloc_map' = r.map
          /\ calls' = Counted(calls, r.resolved)
    /\ UNCHANGED <<entries, declared, status, req, pending, result, built, panics, enc, lint>>

\* Variant: the buffer is interned as it was allocated.
FreezeForgotten(f) == f

\* vtable.mutability = Mutability::Not
Freeze(f) == [f EXCEPT !.mutability = "Not"]

\* The loop is over: the buffer is frozen, interned under a fresh AllocId and
\* stored by the query system; the caller continues with that AllocId.
Finish(w) ==
    /\ stack[w] # <<>>
    /\ ~LoopRunning(Top(w))
    /\ LET f == Freeze(Top(w))
           id == Len(alloc_map) + 1
           rest == Pop(stack[w])
       IN /\ alloc_map' = reserve_and_set_memory_alloc(alloc_map, MemAlloc(f.vtable, f.mutability))
          /\ status' = [status EXCEPT ![f.key] = Done(id)]
          /\ built' = Append(built, [key |-> f.key, id |-> id, words |-> f.vtable, resolved |-> f.resolved])
          /\ IF rest = <<>>
             THEN /\ stack' = [stack EXCEPT ![w] = rest]
                  /\ result' = [result EXCEPT ![w] = BlobResult(id)]
                  /\ pending' = [pending EXCEPT ![w] = FALSE]
             ELSE /\ stack' = [stack EXCEPT ![w] =
                         ReplaceTop(rest, WriteAndAdvance(rest[Len(rest)], ScalarPtr(id)))]
                  /\ UNCHANGED <<result, pending>>
    /\ UNCHANGED <<entries, declared, req, calls, panics, enc, lint>>

Next ==
    \/ \E w \in Workers, k \in Keys : Request(w, k)
    \/ \E w \in Workers : CacheHit(w)
    \/ \E w \in Workers : StartBuild(w)
    \/ \E w \in Workers : BuildFault(w)
    \/ \E w \in Workers : WriteEntry(w)
    \/ \E w \in Workers : Finish(w)

Spec == Init /\ [][Next]_vars

\* ------------------------------------------------------ what the cache holds
CachedKeys == {k \in Keys : status[k].state = "done"}
Cached(k) == status[k].state = "done"
Table(k) == alloc_map[status[k].id].words
Slots(k) == 1..Len(vtable_entries(k))
SlotsOf(k, tag) == {i \in Slots(k) : vtable_entries(k)[i].tag = tag}

\* C1: for every key at most one provider run is published, and every requester,
\* a worker or a provider that asks for a supertrait's table, holds the AllocId
\* the cache holds for the key.
C1_OneBlobPerKey ==
    /\ \A i, j \in 1..Len(built) : built[i].key = built[j].key => i = j
    /\ \A i \in 1..Len(built) : status[built[i].key] = Done(built[i].id)
    /\ \A w \in Workers : result[w].tag = "blob" => status[req[w]] = Done(result[w].id)
    /\ \A w \in Workers : \A n \in 1..Len(stack[w]) :
           LET f == stack[w][n]
           IN \A i \in 1..f.idx :
                  vtable_entries(f.key)[i].tag = "TraitVPtr" =>
                      status[Key(f.key.ty, vtable_entries(f.key)[i].arg)] = Done(f.vtable[i].val)

C1_Witness ==
    \E w, v \in Workers :
        /\ w # v
        /\ req[w] = req[v]
        /\ result[w].tag = "blob" /\ result[v] = result[w]
        /\ SlotsOf(req[w], "TraitVPtr") # {}

\* C2: the table of a sized type without drop glue and no trait is the null
\* pointer followed by (size << 1) | align.
C2_CommonTable ==
    \A ty \in Types :
        (layout_of(ty).sized /\ ~needs_drop(ty) /\ Cached(Key(ty, NoTrait))) =>
            Table(Key(ty, NoTrait)) =
                <<ScalarInt(0), ScalarInt(BitOr(ShiftLeft(layout_of(ty).size, 1), layout_of(ty).align))>>

C2_Witness ==
    /\ Cached(Key("T", NoTrait))
    /\ Table(Key("T", NoTrait)) = <<ScalarInt(0), ScalarInt(20)>>

\* C3: a table whose schema is the header, k methods and v vacant entries has
\* 2 + k + v words, every method slot holds the resolver's token of that method
\* for the table's type, and its provider run resolved exactly the k methods.
HeaderMethodsVacant(k) ==
    /\ k.tr # NoTrait
    /\ SubSeq(vtable_entries(k), 1, 2) = COMMON_VTABLE_ENTRIES
    /\ \A i \in 3..Len(vtable_entries(k)) : vtable_entries(k)[i].tag \in {"Method", "Vacant"}

IsTokenOf(word, inst) ==
    /\ word.tag = "ptr"
    /\ word.val \in 1..Len(alloc_map)
    /\ alloc_map[word.val] = FnAlloc(inst)

MethodsResolved(log) == SelectSeq(log, LAMBDA inst : inst.kind = "method")

RECURSIVE MethodsOf(_, _)
MethodsOf(schema, ty) ==
    IF schema = <<>> THEN <<>>
    ELSE (IF Head(schema).tag = "Method" THEN <<MethodInstance(Head(schema).arg, ty)>> ELSE <<>>)
             \o MethodsOf(Tail(schema), ty)

C3_MethodTable ==
    \A n \in 1..Len(built) :
        LET k == built[n].key
            words == alloc_map[built[n].id].words
        IN HeaderMethodsVacant(k) =>
               /\ Len(words) = 2 + Cardinality(SlotsOf(k, "Method")) + Cardinality(SlotsOf(k, "Vacant"))
               /\ \A i \in SlotsOf(k, "Method") :
                      IsTokenOf(words[i], MethodInstance(vtable_entries(k)[i].arg, k.ty))
               /\ Len(MethodsResolved(built[n].resolved)) = Cardinality(SlotsOf(k, "Method"))
               /\ MethodsResolved(built[n].resolved) = MethodsOf(vtable_entries(k), k.ty)

C3_Witness ==
    \E n \in 1..Len(built) :
        /\ HeaderMethodsVacant(built[n].key)
        /\ Cardinality(SlotsOf(built[n].key, "Method")) = 2
        /\ Cardinality(SlotsOf(built[n].key, "Vacant")) = 1
        /\ vtable_entries(built[n].key)[4].tag = "Vacant"

\* C4: the first two words of the table of (T, Some(trait)) are the two words
\* of the table of (T, None), for every pair of tables the cache holds.
C4_SameHeader ==
    \A ty \in Types : \A tr \in Traits :
        (Cached(Key(ty, tr)) /\ Cached(Key(ty, NoTrait))) =>
            SubSeq(Table(Key(ty, tr)), 1, 2) = Table(Key(ty, NoTrait))

C4_Witness ==
    \E ty \in Types :
        /\ needs_drop(ty)
        /\ \A tr \in Traits \cup {NoTrait} : Cached(Key(ty, tr))
        /\ Len(Table(Key(ty, "A"))) > 2

\* Both workers asked for the same key and both got a table.
BothReturned(w, v) ==
    /\ w # v
    /\ req[w] = req[v]
    /\ result[w].tag = "blob"
    /\ result[v].tag = "blob"

MethodInstances == {MethodInstance(m, ty) : m \in Methods, ty \in Types}

Occurrences(seq, x) == Cardinality({i \in 1..Len(seq) : seq[i] = x})

\* The Method entries for `inst` in the schemas of the tables built so far.
RECURSIVE MethodEntriesBuilt(_, _)
MethodEntriesBuilt(n, inst) ==
    IF n = 0 THEN 0
    ELSE Occurrences(MethodsOf(vtable_entries(built[n].key), built[n].key.ty), inst)
             + MethodEntriesBuilt(n - 1, inst)

\* C5 as stated: two calls with the same key return the same table, and no
\* (method, type) pair is resolved more than once over both calls.
C5_OncePerPair ==
    \A w, v \in Workers :
        BothReturned(w, v) =>
            /\ result[w] = result[v]
            /\ \A m \in Methods : calls[MethodInstance(m, req[w].ty)] <= 1

\* C5, amended: two calls with the same key return the same table, no table is
\* built twice, and over both calls the resolver ran once for every Method
\* entry of every table that was built, and not otherwise.
C5_OncePerEntry ==
    \A w, v \in Workers :
        BothReturned(w, v) =>
            /\ result[w] = result[v]
            /\ Cardinality({n \in 1..Len(built) : built[n].key = req[w]}) = 1
            /\ \A n, o \in 1..Len(built) : built[n].key = built[o].key => n = o
            /\ \A inst \in MethodInstances : calls[inst] = MethodEntriesBuilt(Len(built), inst)

C5_Witness ==
    \E w, v \in Workers :
        /\ BothReturned(w, v)
        /\ Len(built) = 2
        /\ \A n \in 1..Len(built) :
               Occurrences(MethodsOf(vtable_entries(built[n].key), req[w].ty),
                           MethodInstance("f", req[w].ty)) = 1
        /\ calls[MethodInstance("f", req[w].ty)] = 2

\* The rules every stored table obeys, slot by slot.
SlotObeys(k, i) ==
    LET e == vtable_entries(k)[i]
        word == Table(k)[i]
    IN CASE e.tag = "MetadataDropInPlace" ->
                IF needs_drop(k.ty) THEN IsTokenOf(word, DropInstance(k.ty)) ELSE word = ScalarInt(0)
         [] e.tag = "MetadataTyLayout" ->
                word = ScalarInt(BitOr(ShiftLeft(layout_of(k.ty).size, 1), layout_of(k.ty).align))
         [] e.tag = "Vacant" -> word = Uninit
         [] e.tag = "Method" -> IsTokenOf(word, MethodInstance(e.arg, k.ty))
         [] OTHER -> /\ Cached(Key(k.ty, e.arg))
                     /\ word = ScalarPtr(status[Key(k.ty, e.arg)].id)

WellFormedTable(k) ==
    /\ Cached(k)
    /\ status[k].id \in 1..Len(alloc_map)
    /\ alloc_map[status[k].id].kind = "mem"
    /\ Len(Table(k)) = Len(vtable_entries(k))
    /\ SubSeq(vtable_entries(k), 1, 2) = COMMON_VTABLE_ENTRIES
    /\ \A i \in Slots(k) : SlotObeys(k, i)

\* C6: a TraitVPtr(A) slot of the table of (T, Some(B)) holds a pointer to the
\* table the cache holds for (T, Some(A)), and that table obeys the header and
\* entry rules of its own key.
C6_SupertraitPointer ==
    \A k \in CachedKeys : \A i \in SlotsOf(k, "TraitVPtr") :
        LET a == Key(k.ty, vtable_entries(k)[i].arg)
        IN /\ Cached(a)
           /\ Table(k)[i] = ScalarPtr(status[a].id)
           /\ WellFormedTable(a)

C6_Witness ==
    \E k \in CachedKeys : \E i \in SlotsOf(k, "TraitVPtr") :
        LET a == Key(k.ty, vtable_entries(k)[i].arg)
        IN /\ Cached(a)
           /\ SlotsOf(a, "Method") # {}
           /\ Table(k)[i] = ScalarPtr(status[a].id)

\* C7: word 0 of the common table of a type with drop glue is the non-null
\* token of its drop_in_place, and no method slot of a table of that type
\* holds this token.
C7_DropToken ==
    \A ty \in Types :
        (needs_drop(ty) /\ Cached(Key(ty, NoTrait))) =>
            LET word == Table(Key(ty, NoTrait))[VTABLE_DROPINPLACE_OFFSET + 1]
            IN /\ word # ScalarInt(0)
               /\ IsTokenOf(word, DropInstance(ty))
               /\ \A k \in CachedKeys : \A i \in SlotsOf(k, "Method") :
                      k.ty = ty => Table(k)[i] # word

C7_Witness ==
    \E ty \in Types : \E k \in CachedKeys :
        /\ needs_drop(ty)
        /\ Cached(Key(ty, NoTrait))
        /\ k.ty = ty
        /\ Cardinality(SlotsOf(k, "Method")) = 2

\* C8: a table the cache holds is read-only and has every slot of a non-vacant
\* entry written; a key is stored only when its provider's loop is over, and
\* the stored words are those of the moment of storing.
C8_NoTornTable ==
    /\ \A k \in CachedKeys :
           /\ alloc_map[status[k].id].kind = "mem"
           /\ alloc_map[status[k].id].mutability = "Not"
           /\ Len(Table(k)) = Len(vtable_entries(k))
           /\ \A i \in Slots(k) : vtable_entries(k)[i].tag # "Vacant" => Table(k)[i] # Uninit
    /\ \A w \in Workers : \A n \in 1..Len(stack[w]) : ~Cached(stack[w][n].key)
    /\ \A n \in 1..Len(built) :
           /\ status[built[n].key] = Done(built[n].id)
           /\ alloc_map[built[n].id].words = built[n].words

C8_Witness ==
    \E k \in CachedKeys : \E w \in Workers :
        /\ SlotsOf(k, "Vacant") # {}
        /\ stack[w] # <<>>
        /\ Top(w).idx = 1
        /\ Len(Top(w).vtable) > 2

\* C9: a provider panic reaches the worker that asked, no table is stored for
\* a key whose provider panicked, no key stays claimed by the worker, and a
\* worker that asks for the key later runs the provider again.
C9_FaultNotStored ==
    /\ \A n \in 1..Len(panics) : status[panics[n]].state # "done"
    /\ \A w \in Workers :
           result[w].tag = "fault" =>
               /\ ~pending[w]
               /\ stack[w] = <<>>
               /\ status[req[w]].state # "done"
               /\ \A k \in Keys : status[k] # Running(w)
    /\ Len(panics) = Cardinality({w \in Workers : result[w].tag = "fault"})

C9_Witness ==
    /\ Len(panics) = 2
    /\ panics[1] = panics[2]
    /\ layout_of(panics[1].ty).sized
    /\ \A w \in Workers : result[w].tag = "fault" /\ req[w] # panics[1]

\* ------------------------------------------------- the supertrait relation
Supertraits(t) == {entries[t][i].arg : i \in {j \in 1..Len(entries[t]) : entries[t][j].tag = "TraitVPtr"}}

RECURSIVE ReachedFrom(_, _)
ReachedFrom(S, n) ==
    IF n = 0 THEN S ELSE ReachedFrom(S \cup UNION {Supertraits(t) : t \in S}, n - 1)

\* The traits whose tables the table of t points to, directly or not.
Above(t) == ReachedFrom(Supertraits(t), Cardinality(Traits))
OnCycle(t) == t \in Above(t)
Acyclic == \A t \in Traits : ~OnCycle(t)

\* No provider run the query for k leads to can panic.
FaultFree(k) ==
    /\ layout_of(k.ty).sized
    /\ k.tr # NoTrait => \A t \in {k.tr} \cup Above(k.tr) : declared[t] = Len(entries[t])

\* A worker that can take a step of its query takes it.
Step(w) == CacheHit(w) \/ StartBuild(w) \/ BuildFault(w) \/ WriteEntry(w) \/ Finish(w)
\* Liveness is checked for the sessions whose workers run concurrently, with
\* schemas of supertrait pointers and one method.
LiveEntries == {MetadataDropInPlace, MetadataTyLayout, Method("f")} \cup {TraitVPtr(t) : t \in Traits}
LiveInit ==
    /\ Init
    /\ SmallSession
    /\ \A t \in Traits : \A i \in 1..Len(entries[t]) : entries[t][i] \in LiveEntries
\* The tables of the sized types are built alike: the liveness sessions ask for
\* those of one sized type and of the unsized one.
LiveTypes == {"T", "U"}
LiveRequest(w, k) == k.ty \in LiveTypes /\ Request(w, k)
LiveNext ==
    \/ \E w \in Workers, k \in Keys : LiveRequest(w, k)
    \/ \E w \in Workers : Step(w)
LiveSpec == LiveInit /\ [][LiveNext]_vars /\ \A w \in Workers : WF_vars(Step(w))

CountMatches(k) == Len(vtable_entries(k)) = count_vtable_entries(k.tr)

FramesOf(k) == {<<w, n>> \in Workers \X (1..MaxExtra + 1) : n <= Len(stack[w]) /\ stack[w][n].key = k}

\* C11: every table a provider run returns has as many words as are declared
\* for its key, PtrSize bytes each; for a key whose schema has another length
\* than declared no buffer is ever allocated, no table is interned and none is
\* stored.
C11_DeclaredCount ==
    /\ \A n \in 1..Len(built) :
           /\ Len(alloc_map[built[n].id].words) = count_vtable_entries(built[n].key.tr)
           /\ VtableSize(built[n].key) = PtrSize * count_vtable_entries(built[n].key.tr)
    /\ \A k \in Keys :
           ~CountMatches(k) =>
               /\ ~Cached(k)
               /\ FramesOf(k) = {}
               /\ \A n \in 1..Len(built) : built[n].key # k

C11_Witness ==
    /\ \E n \in 1..Len(panics) : layout_of(panics[n].ty).sized /\ ~CountMatches(panics[n])
    /\ \E n \in 1..Len(built) : built[n].key.tr # NoTrait /\ Len(built[n].words) > 2

Unsized(k) == k # NoKey /\ ~layout_of(k.ty).sized

\* This step is a provider run panicking for a key of an unsized type.
UnsizedFaultStep ==
    /\ Len(panics') = Len(panics) + 1
    /\ Unsized(panics'[Len(panics')])

\* C12: no table is ever built, interned or stored for a key of an unsized
\* type and no request for one returns a table; the step in which its provider
\* run panics starts from no provider frame of the asking worker, resolves
\* nothing, interns nothing, changes no stored key and leaves the other workers
\* as they were.
C12_UnsizedFaults ==
    /\ [](\A k \in Keys :
             Unsized(k) =>
                 /\ ~Cached(k)
                 /\ FramesOf(k) = {}
                 /\ \A n \in 1..Len(built) : built[n].key # k)
    /\ [](\A w \in Workers :
             Unsized(req[w]) => /\ result[w].tag # "blob"
                                /\ ~pending[w] => result[w] = FaultResult)
    /\ [][UnsizedFaultStep =>
             /\ calls' = calls
             /\ alloc_map' = alloc_map
             /\ built' = built
             /\ \A k \in Keys : Cached(k) => status'[k] = status[k]
             /\ \E w \in Workers :
                    /\ stack[w] = <<>> /\ stack'[w] = <<>>
                    /\ pending[w] /\ ~pending'[w]
                    /\ result'[w] = FaultResult
                    /\ \A v \in Workers \ {w} :
                           /\ stack'[v] = stack[v]
                           /\ pending'[v] = pending[v]
                           /\ result'[v] = result[v]]_vars

C12_Witness ==
    \E w, v \in Workers :
        /\ Unsized(req[w]) /\ req[w].tr # NoTrait
        /\ result[w] = FaultResult
        /\ \E n \in 1..Len(panics) : panics[n] = req[w]
        /\ result[v].tag = "blob"
        /\ Cached(req[v])
        /\ SlotsOf(req[v], "TraitVPtr") # {}

\* The keys of the supertrait tables the provider of k asks for.
SuperKeysOf(k) == {SuperKey(k.ty, vtable_entries(k)[i]) : i \in SlotsOf(k, "TraitVPtr")}

\* This step is a panic of the provider run that worker w asked for from one
\* of its provider frames.
SupertraitFaultStep(w) ==
    /\ Len(panics') = Len(panics) + 1
    /\ stack[w] # <<>>
    /\ pending[w] /\ ~pending'[w]

\* C13: no table is built or stored for a key whose schema has a supertrait
\* pointer to a key the provider panics for; when the provider run asked for
\* by a TraitVPtr entry panics, every provider run of the worker that waits for
\* it ends with it: the worker has the fault, none of its frames is left, none
\* of their keys is stored and nothing was interned.
C13_SupertraitFault ==
    /\ [](\A k \in Keys :
             (\E a \in SuperKeysOf(k) : ProviderPanics(a)) =>
                 /\ ~Cached(k)
                 /\ \A n \in 1..Len(built) : built[n].key # k)
    /\ [][\A w \in Workers :
             SupertraitFaultStep(w) =>
                 /\ panics'[Len(panics')] = SuperKey(Top(w).key.ty, CurrentEntry(Top(w)))
                 /\ result'[w] = FaultResult
                 /\ stack'[w] = <<>>
                 /\ \A n \in 1..Len(stack[w]) : status'[stack[w][n].key] = Absent
                 /\ built' = built
                 /\ alloc_map' = alloc_map]_vars

C13_Witness ==
    \E w \in Workers :
        /\ Len(panics) = 1
        /\ result[w] = FaultResult
        /\ ~Unsized(req[w])
        /\ panics[1] # req[w]
        /\ panics[1] \in SuperKeysOf(req[w])
        /\ SlotsOf(req[w], "Method") # {}
        /\ ~ProviderPanics(req[w])
        /\ status[req[w]] = Absent

\* C14: a key the cache holds keeps its AllocId, and the allocation of that
\* AllocId keeps its words, in every step, whatever is requested, built or
\* panics afterwards.
C14_NoEviction ==
    [][\A k \in Keys :
          Cached(k) =>
              /\ status'[k] = status[k]
              /\ alloc_map'[status[k].id] = alloc_map[status[k].id]]_vars

C14_Witness ==
    /\ Len(built) = 3
    /\ \A n \in 1..Len(built) :
           /\ status[built[n].key] = Done(built[n].id)
           /\ alloc_map[built[n].id].words = built[n].words
    /\ built[1].id < built[2].id /\ built[2].id < built[3].id
    /\ \A w \in Workers : result[w].tag = "blob"

\* The example: an 8-byte, 4-aligned type without drop glue and a trait whose
\* schema is the header and one method.
ShowSchema == COMMON_VTABLE_ENTRIES \o <<Method("f")>>
ExampleBuilt(k) ==
    /\ k.tr # NoTrait
    /\ layout_of(k.ty) = [size |-> 8, align |-> 4, sized |-> TRUE]
    /\ ~needs_drop(k.ty)
    /\ vtable_entries(k) = ShowSchema
    /\ Cached(k)

\* C15 as stated: the example's table is [0x0, 0x11, token(render, T)].
C15_ExampleAsStated ==
    \A k \in Keys :
        ExampleBuilt(k) =>
            /\ Len(Table(k)) = 3
            /\ Table(k)[1] = ScalarInt(0)
            /\ Table(k)[2] = ScalarInt(17)
            /\ IsTokenOf(Table(k)[3], MethodInstance("f", k.ty))

\* C15, amended: the example's table is [0x0, 0x14, token(render, T)], 0x14
\* being (8 << 1) | 4.
C15_ExampleTable ==
    \A k \in Keys :
        ExampleBuilt(k) =>
            /\ Len(Table(k)) = 3
            /\ Table(k)[1] = ScalarInt(0)
            /\ Table(k)[2] = ScalarInt(20)
            /\ 20 = BitOr(ShiftLeft(8, 1), 4)
            /\ IsTokenOf(Table(k)[3], MethodInstance("f", k.ty))

C15_Witness ==
    /\ ExampleBuilt(Key("T", "A"))
    /\ \E w \in Workers : req[w] = Key("T", "A") /\ result[w] = BlobResult(status[req[w]].id)

\* The buffer of frame f is what the loop has made of it after f.idx entries.
FrameWritten(f) ==
    /\ Len(f.vtable) = Len(vtable_entries(f.key))
    /\ \A i \in 1..Len(f.vtable) :
           f.vtable[i] = Uninit <=> (i > f.idx \/ vtable_entries(f.key)[i].tag = "Vacant")

\* From frame f to frame g the loop handled the entry at f.idx and nothing else.
OneEntryHandled(f, g) ==
    /\ g.key = f.key
    /\ g.idx = f.idx + 1
    /\ \A j \in 1..Len(f.vtable) : j # f.idx + 1 => g.vtable[j] = f.vtable[j]
    /\ IF CurrentEntry(f).tag = "Vacant"
       THEN g.vtable = f.vtable
       ELSE g.vtable[(PtrSize * f.idx) \div PtrSize + 1] # Uninit

\* C16: the loop handles the entries in order; entry i changes slot i (byte
\* offset i * PtrSize) and no other, a Vacant entry changes nothing, so in every
\* buffer exactly the slots of the non-vacant entries handled so far are
\* written, and in a finished table every Method slot holds the token of the
\* method at its own index.
C16_SlotPerEntry ==
    /\ [](\A w \in Workers : \A n \in 1..Len(stack[w]) : FrameWritten(stack[w][n]))
    /\ [](\A n \in 1..Len(built) :
             LET k == built[n].key
             IN \A i \in Slots(k) :
                    CASE vtable_entries(k)[i].tag = "Vacant" -> built[n].words[i] = Uninit
                      [] vtable_entries(k)[i].tag = "Method" ->
                             IsTokenOf(built[n].words[i], MethodInstance(vtable_entries(k)[i].arg, k.ty))
                      [] OTHER -> built[n].words[i] # Uninit)
    /\ [][\A w \in Workers :
             LET d == Len(stack[w])
                 e == Len(stack'[w])
             IN /\ \A n \in 1..d : n < e => stack'[w][n] = stack[w][n]
                /\ (e = d /\ d > 0 /\ stack'[w][d] # stack[w][d]) =>
                       OneEntryHandled(stack[w][d], stack'[w][d])
                /\ (e = d - 1 /\ e > 0) => OneEntryHandled(stack[w][e], stack'[w][e])]_vars

C16_Witness ==
    \E n \in 1..Len(built) :
        LET k == built[n].key
        IN /\ Len(vtable_entries(k)) = 5
           /\ vtable_entries(k)[3] = Vacant
           /\ vtable_entries(k)[4] = Method("g")
           /\ vtable_entries(k)[5] = Method("f")
           /\ built[n].words[3] = Uninit
           /\ IsTokenOf(built[n].words[4], MethodInstance("g", k.ty))
           /\ IsTokenOf(built[n].words[5], MethodInstance("f", k.ty))

\* =================================================== the layout word alone
\* size << 1 | align is computed in u64 and written as a pointer-sized
\* integer; here usize has WordBits bits, so that its limit is reached.
WordBits == 4
WordModulus == 2 ^ WordBits

\* layout.size.bytes(): any usize; layout.align.abi.bytes(): a power of two.
Sizes == 0..(WordModulus - 1)
AlignValues == {2 ^ i : i \in 0..(WordBits - 1)}
Layouts == [size : Sizes, align : AlignValues]

\* Variant: the word is cut to a narrower integer.
LayoutWordNarrow(size, align) == PackLayout(size, align) % (2 ^ (WordBits - 1))

\* Variant: the size is shifted past a whole word, into a double-width integer.
LayoutWordWide(size, align) == BitOr(ShiftLeft(size, WordBits), align)

\* let layout = size << 1 | align; Scalar::from_uint(layout, ptr_size)
LayoutWord(size, align) == PackLayout(size, align) % WordModulus

\* What a consumer reads back from the word: the alignment is its lowest set
\* bit, the size the rest shifted back.
RECURSIVE LowestSetBit(_)
LowestSetBit(word) ==
    IF word = 0 THEN 0
    ELSE IF word % 2 = 1 THEN 1
    ELSE 2 * LowestSetBit(word \div 2)
ShiftRight(a, n) == a \div (2 ^ n)
ReadBack(word) ==
    [size |-> ShiftRight(word - LowestSetBit(word), 1), align |-> LowestSetBit(word)]

\* No table is being built while the layout word or a use item is looked at.
VtableIdle ==
    /\ entries = [t \in Traits |-> COMMON_VTABLE_ENTRIES]
    /\ declared = [t \in Traits |-> Len(COMMON_VTABLE_ENTRIES)]
    /\ status = [k \in Keys |-> Absent]
    /\ alloc_map = <<>>
    /\ stack = [w \in Workers |-> <<>>]
    /\ req = [w \in Workers |-> NoKey]
    /\ pending = [w \in Workers |-> FALSE]
    /\ result = [w \in Workers |-> NoResult]
    /\ calls = [i \in Instances |-> 0]
    /\ built = <<>>
    /\ panics = <<>>

EncInit ==
    /\ VtableIdle
    /\ lint = LintIdle
    /\ \E a, b \in Layouts : enc = [phase |-> "input", a |-> a, b |-> b]

\* The words of the two layouts are computed.
Encode ==
    /\ enc.phase = "input"
    /\ enc' = [phase |-> "encoded", a |-> enc.a, b |-> enc.b,
               wa |-> LayoutWord(enc.a.size, enc.a.align),
               wb |-> LayoutWord(enc.b.size, enc.b.align)]
    /\ UNCHANGED <<vtable_vars, lint>>

\* The words are read back.
Decode ==
    /\ enc.phase = "encoded"
    /\ enc' = [phase |-> "decoded", a |-> enc.a, b |-> enc.b, wa |-> enc.wa, wb |-> enc.wb,
               ra |-> ReadBack(enc.wa), rb |-> ReadBack(enc.wb)]
    /\ UNCHANGED <<vtable_vars, lint>>

EncNext == Encode \/ Decode

EncSpec == EncInit /\ [][EncNext]_vars

\* The shift loses no bit of the size.
SizeFits(l) == l.size < 2 ^ (WordBits - 1)

\* Bit b (a power of two) is set in x.
HasBit(x, b) == (x \div b) % 2 = 1

\* The doubled size of l has the bit of l's alignment set, and another one.
AlignHidden(l) ==
    /\ SizeFits(l)
    /\ HasBit(ShiftLeft(l.size, 1), l.align)
    /\ ShiftLeft(l.size, 1) # l.align

\* C17: a layout whose doubled size has the bit of its alignment and another
\* bit set has the word of a layout of another power-of-two alignment, neither
\* size being too large for the shift: the word does not tell the alignment.
C17_Lossy ==
    (enc.phase # "input" /\ AlignHidden(enc.a)) =>
        \E q \in Layouts :
            /\ SizeFits(q)
            /\ q.align # enc.a.align
            /\ LayoutWord(q.size, q.align) = enc.wa

C17_Witness ==
    /\ enc.phase = "decoded"
    /\ AlignHidden(enc.a)
    /\ SizeFits(enc.a) /\ SizeFits(enc.b)
    /\ enc.a.align # enc.b.align
    /\ enc.wa = enc.wb
    /\ enc.ra # enc.a

\* The layouts the restriction admits.
Restricted(l) ==
    /\ l.align \in AlignValues
    /\ l.size % l.align = 0
    /\ SizeFits(l)

\* C18: for a layout whose size is a multiple of its power-of-two alignment
\* and below 2^(WordBits-1), size << 1 | align loses no bit in WordBits bits,
\* its lowest set bit is the alignment and (word - align) >> 1 the size, so two
\* such layouts with the same word are the same; size 0 with align 1 has the
\* word 1 and reads back as size 0.
C18_Injective ==
    /\ (enc.phase \in {"encoded", "decoded"} /\ Restricted(enc.a)) =>
           /\ enc.wa = BitOr(ShiftLeft(enc.a.size, 1), enc.a.align)
           /\ enc.wa < WordModulus
           /\ LowestSetBit(enc.wa) = enc.a.align
           /\ ShiftRight(enc.wa - enc.a.align, 1) = enc.a.size
           /\ (Restricted(enc.b) /\ enc.wb = enc.wa) => enc.b = enc.a
           /\ (enc.a.size = 0 /\ enc.a.align = 1) => enc.wa = 1
    /\ (enc.phase = "decoded" /\ Restricted(enc.a)) => enc.ra = enc.a
    /\ (enc.phase = "decoded" /\ enc.wa = 1) => enc.ra.size = 0

C18_Witness ==
    /\ enc.phase = "decoded"
    /\ Restricted(enc.a) /\ Restricted(enc.b)
    /\ enc.a.size = 2 ^ (WordBits - 1) - enc.a.align
    /\ enc.a.align > 1
    /\ enc.b = [size |-> 0, align |-> 1]
    /\ enc.rb.size = 0

\* ==================================== unused imports: calc_unused_spans
MaxNodes == 6        \* use trees of a use item, the item's own tree included

\* Span: the bytes lo..hi-1 of the source text.
Span(lo, hi) == [lo |-> lo, hi |-> hi]
Min(a, b) == IF a <= b THEN a ELSE b
Max(a, b) == IF a >= b THEN a ELSE b
shrink_to_lo(s) == Span(s.lo, s.lo)
shrink_to_hi(s) == Span(s.hi, s.hi)
\* Span::to: the span that encloses both.
to(s, end) == Span(Min(s.lo, end.lo), Max(s.hi, end.hi))

\* ast::UseTree before it has a place in the text: Simple(..) or Glob, used or
\* not, or Nested(items).
SimpleShape(unused) == [kind |-> "simple", unused |-> unused, nested |-> <<>>]
NestedShape(items) == [kind |-> "nested", unused |-> FALSE, nested |-> items]

RECURSIVE TreesOf(_), ForestsOf(_)
\* The use trees of n nodes, and the item lists of n nodes in all.
TreesOf(n) ==
    IF n = 0 THEN {}
    ELSE (IF n = 1 THEN {SimpleShape(u) : u \in BOOLEAN} ELSE {})
             \cup {NestedShape(f) : f \in ForestsOf(n - 1)}
ForestsOf(n) ==
    IF n = 0 THEN {<<>>}
    ELSE UNION {{<<t>> \o f : t \in TreesOf(k), f \in ForestsOf(n - k)} : k \in 1..n}

UseTreeShapes == UNION {TreesOf(n) : n \in 1..MaxNodes}

\* The text of a use item: "use " tree ";", a simple tree is one byte, a nested
\* one "{" item ", " item .. "}".  A tree's NodeId is the offset it starts at.
UseKeywordLen == 4
SeparatorLen == 2

RECURSIVE PlaceTree(_, _), PlaceItems(_, _)
PlaceItems(items, lo) ==
    IF items = <<>> THEN <<>>
    ELSE LET first == PlaceTree(Head(items), lo)
         IN <<first>> \o PlaceItems(Tail(items), first.span.hi + SeparatorLen)
PlaceTree(shape, lo) ==
    IF shape.kind = "simple"
    THEN [kind |-> "simple", id |-> lo, unused |-> shape.unused, span |-> Span(lo, lo + 1), nested |-> <<>>]
    ELSE LET items == PlaceItems(shape.nested, lo + 1)
             close == IF items = <<>> THEN lo + 1 ELSE items[Len(items)].span.hi
         IN [kind |-> "nested", id |-> lo, unused |-> FALSE, span |-> Span(lo, close + 1), nested |-> items]

RECURSIVE UnusedIds(_), UnusedIdsOfItems(_)
UnusedIdsOfItems(items) ==
    IF items = <<>> THEN {} ELSE UnusedIds(Head(items)) \cup UnusedIdsOfItems(Tail(items))
\* check_import / visit_use_tree: the ids recorded as unused.
UnusedIds(t) ==
    IF t.kind = "simple" THEN (IF t.unused THEN {t.id} ELSE {})
    ELSE IF t.nested = <<>> THEN {t.id}
    ELSE UnusedIdsOfItems(t.nested)

\* struct UnusedImport of the use item whose tree has this shape.
UnusedImportOf(shape) ==
    LET t == PlaceTree(shape, UseKeywordLen)
    IN [use_tree |-> t, use_tree_id |-> t.id,
        item_span |-> Span(0, t.span.hi + 1), unused |-> UnusedIds(t)]

\* enum UnusedSpanResult
Used == [tag |-> "Used", spans |-> <<>>, remove |-> <<>>]
FlatUnused(span, remove) == [tag |-> "FlatUnused", spans |-> <<span>>, remove |-> <<remove>>]
NestedFullUnused(spans, remove) == [tag |-> "NestedFullUnused", spans |-> spans, remove |-> <<remove>>]
NestedPartialUnused(spans, to_remove) == [tag |-> "NestedPartialUnused", spans |-> spans, remove |-> to_remove]

full_span(unused_import, use_tree) ==
    IF unused_import.use_tree.span = use_tree.span THEN unused_import.item_span ELSE use_tree.span

\* The locals of the loop over the nested items.
LoopStart ==
    [unused_spans |-> <<>>, to_remove |-> <<>>, all_nested_unused |-> TRUE, previous_unused |-> FALSE]

\* Variant: an unused item's removal is pushed without looking at the one before.
CollapseNever(to_remove, previous_unused, remove_span) == Append(to_remove, remove_span)

\* Try to collapse adjacent spans into a single one.
Collapse(to_remove, previous_unused, remove_span) ==
    IF previous_unused /\ to_remove # <<>>
    THEN Append(SubSeq(to_remove, 1, Len(to_remove) - 1), to(to_remove[Len(to_remove)], remove_span))
    ELSE Append(to_remove, remove_span)

\* The span to remove for the unused item at pos (counted from 0).
RemoveSpan(nested, pos, all_nested_unused, remove) ==
    IF Len(nested) = 1 THEN remove
    ELSE IF pos = Len(nested) - 1 \/ ~all_nested_unused
         THEN to(shrink_to_hi(nested[pos].span), nested[pos + 1].span)
         ELSE to(nested[pos + 1].span, shrink_to_lo(nested[pos + 2].span))

RECURSIVE calc_unused_spans(_, _, _), NestedLoop(_, _, _, _)

\* One iteration of the loop, for the item at pos (counted from 0).
LoopBody(unused_import, nested, pos, st) ==
    LET use_tree == nested[pos + 1]
        r == calc_unused_spans(unused_import, use_tree, use_tree.id)
        removed == r.tag \in {"FlatUnused", "NestedFullUnused"}
        all == st.all_nested_unused /\ removed
        extra == IF r.tag = "NestedPartialUnused" THEN r.remove ELSE <<>>
    IN [unused_spans |-> st.unused_spans \o r.spans,
        to_remove |->
            IF removed
            THEN Collapse(st.to_remove \o extra, st.previous_unused,
                          RemoveSpan(nested, pos, all, r.remove[1]))
            ELSE st.to_remove \o extra,
        all_nested_unused |-> all,
        previous_unused |-> removed]

NestedLoop(unused_import, nested, pos, st) ==
    IF pos = Len(nested) THEN st
    ELSE NestedLoop(unused_import, nested, pos + 1, LoopBody(unused_import, nested, pos, st))

calc_unused_spans(unused_import, use_tree, use_tree_id) ==
    IF use_tree.kind = "simple"
    THEN IF use_tree_id \in unused_import.unused
         THEN FlatUnused(use_tree.span, full_span(unused_import, use_tree))
         ELSE Used
    ELSE IF use_tree.nested = <<>>
    THEN FlatUnused(use_tree.span, full_span(unused_import, use_tree))
    ELSE LET st == NestedLoop(unused_import, use_tree.nested, 0, LoopStart)
         IN IF st.unused_spans = <<>> THEN Used
            ELSE IF st.all_nested_unused
            THEN NestedFullUnused(st.unused_spans, full_span(unused_import, use_tree))
            ELSE NestedPartialUnused(st.unused_spans, st.to_remove)

LintInit ==
    /\ VtableIdle
    /\ enc = EncIdle
    /\ \E shape \in UseTreeShapes :
           lint = [phase |-> "visited", unused_import |-> UnusedImportOf(shape)]

\* check_unused calls calc_unused_spans for the use item.
CalcSpans ==
    /\ lint.phase = "visited"
    /\ lint' = [phase |-> "calculated", unused_import |-> lint.unused_import,
                result |-> calc_unused_spans(lint.unused_import, lint.unused_import.use_tree,
                                             lint.unused_import.use_tree_id)]
    /\ UNCHANGED <<vtable_vars, enc>>

\* check_unused turns the result into the fixes of the lint; a use item with
\* nothing unused gets none.
CollectFixes ==
    /\ lint.phase = "calculated"
    /\ lint.result.tag # "Used"
    /\ lint' = [phase |-> "fixed", unused_import |-> lint.unused_import,
                result |-> lint.result, fixes |-> lint.result.remove]
    /\ UNCHANGED <<vtable_vars, enc>>

LintNext == CalcSpans \/ CollectFixes

LintSpec == LintInit /\ [][LintNext]_vars

RECURSIVE NodesOf(_), NodesOfItems(_)
NodesOfItems(items) ==
    IF items = <<>> THEN {} ELSE NodesOf(Head(items)) \cup NodesOfItems(Tail(items))
\* The use trees of a use item: its own and the nested ones at any depth.
NodesOf(t) == {t} \cup NodesOfItems(t.nested)

Overlaps(a, b) == a.lo < b.hi /\ b.lo < a.hi
Covers(a, b) == a.lo <= b.lo /\ b.hi <= a.hi
InSeq(s) == {s[i] : i \in 1..Len(s)}

\* The result calc_unused_spans has for a use tree of the item in hand.
ResultOf(t) == calc_unused_spans(lint.unused_import, t, t.id)
Removed(t) == ResultOf(t).tag \in {"FlatUnused", "NestedFullUnused"}
\* The tree is an import in use, or has one inside.
HasUsed(t) == \E n \in NodesOf(t) : n.kind = "simple" /\ n.id \notin lint.unused_import.unused

\* C19: when calc_unused_spans answers NestedPartialUnused for a use item, no
\* two of its removal spans overlap; none touches an import in use, and none
\* reaches over the border of a nested tree with an import in use; every
\* unused item of a partly used list lies in exactly one of them, and two
\* unused items next to each other in the same one.
C19_DisjointRemovals ==
    (lint.phase \in {"calculated", "fixed"} /\ lint.result.tag = "NestedPartialUnused") =>
        LET remove == lint.result.remove
            root == lint.unused_import.use_tree
        IN /\ \A i, j \in 1..Len(remove) : i # j => ~Overlaps(remove[i], remove[j])
           /\ \A r \in InSeq(remove) : r.lo < r.hi /\ Covers(root.span, r)
           /\ \A r \in InSeq(remove) : \A n \in NodesOf(root) :
                  HasUsed(n) =>
                      \/ ~Overlaps(r, n.span)
                      \/ n.kind = "nested" /\ r.lo > n.span.lo /\ r.hi < n.span.hi
           /\ \A n \in NodesOf(root) :
                  ResultOf(n).tag = "NestedPartialUnused" =>
                      /\ \A i \in 1..Len(n.nested) :
                             Removed(n.nested[i]) =>
                                 Cardinality({k \in 1..Len(remove) :
                                                  Overlaps(remove[k], n.nested[i].span)}) = 1
                      /\ \A i \in 1..(Len(n.nested) - 1) :
                             (Removed(n.nested[i]) /\ Removed(n.nested[i + 1])) =>
                                 \E r \in InSeq(remove) :
                                     Covers(r, n.nested[i].span) /\ Covers(r, n.nested[i + 1].span)

C19_Witness ==
    /\ lint.phase = "fixed"
    /\ lint.result.tag = "NestedPartialUnused"
    /\ Len(lint.fixes) = 2
    /\ LET root == lint.unused_import.use_tree
       IN /\ Len(root.nested) = 3
          /\ Removed(root.nested[1]) /\ Removed(root.nested[2])
          /\ ResultOf(root.nested[3]).tag = "NestedPartialUnused"
          /\ \E r \in InSeq(lint.fixes) :
                 Covers(r, root.nested[1].span) /\ Covers(r, root.nested[2].span)

====
